---------------------------- MODULE Spec2Model ----------------------------
(***************************************************************************)
(* A model of occa/okl/oklifier.py: the Oklifier translator that turns a   *)
(* restricted Python syntax tree into OKL source text, and the py2okl      *)
(* entry point.                                                            *)
(*                                                                         *)
(* Python values are modelled as follows.                                  *)
(*   - str: a sequence of one-character strings, so that len, startswith,  *)
(*     endswith, ==, + and join are computed on characters;                *)
(*   - an ast node: a record with a "type" field naming its class and one  *)
(*     field per attribute the translator reads.  Expression and statement *)
(*     nodes and "arg" carry lineno/col_offset; operator nodes, the        *)
(*     "arguments" node and slice nodes carry none (Python 3.7 ast);       *)
(*   - a dict: a sequence of [key, value] records in insertion order;      *)
(*   - a raised exception: the "exc" field of the result record every      *)
(*     method returns, which the caller propagates.                        *)
(* Every method takes the instance (self) and the module globals (G) and   *)
(* returns them, possibly changed, in its result.                          *)
(***************************************************************************)
EXTENDS Integers, Sequences, FiniteSets, TLC

VARIABLES
    heap,       \* the function objects of the module that calls py2okl, by name
    argument,   \* the object handed to the latest call of py2okl
    ret,        \* what that call returned or raised
    proc,       \* the namespace of module oklifier, and the steps of the latest call
    last,       \* the Oklifier instance the latest call left behind
    calls,      \* the number of calls made
    history     \* every call made so far: its input and its outcome

vars == <<heap, argument, ret, proc, last, calls, history>>

-----------------------------------------------------------------------------
(* String literals, one character per element.                             *)
t_EMPTY == <<>>
t_SP == <<" ">>
t_NL == <<"\n">>
t_BLANK == <<"\n", "\n">>
t_SEMI == <<";">>
t_LPAREN == <<"(">>
t_RPAREN == <<")">>
t_COMMA_SP == <<",", " ">>
t_COMMA_NL == <<",", "\n">>
t_DOT == <<".">>
t_AT == <<"@">>
t_STAR == <<"*">>
t_LBRACK == <<"[">>
t_RBRACK == <<"]">>
t_LBRACE == <<"{">>
t_RBRACE == <<"}">>
t_EQ_SP == <<" ", "=", " ">>
t_PLUS == <<" ", "+", " ">>
t_MINUS == <<" ", "-", " ">>
t_TIMES == <<" ", "*", " ">>
t_DIV == <<" ", "/", " ">>
t_MOD == <<" ", "%", " ">>
t_POW_OPEN == <<"p", "o", "w", "(">>
t_SHL == <<" ", "<", "<", " ">>
t_SHR == <<" ", ">", ">", " ">>
t_BOR == <<" ", "|", " ">>
t_BAND == <<" ", "&", " ">>
t_FLOOR_OPEN == <<"f", "l", "o", "o", "r", "(">>
t_IADD == <<" ", "+", "=", " ">>
t_ISUB == <<" ", "-", "=", " ">>
t_IMUL == <<" ", "*", "=", " ">>
t_IDIV == <<" ", "/", "=", " ">>
t_IMOD == <<" ", "%", "=", " ">>
t_IPOW_OPEN == <<" ", "=", " ", "p", "o", "w", "(">>
t_ISHR == <<" ", ">", ">", "=", " ">>
t_IBOR == <<" ", "|", "=", " ">>
t_IBAND == <<" ", "&", "=", " ">>
t_IFLOOR_OPEN == <<" ", "=", " ", "f", "l", "o", "o", "r", "(">>
t_ISHL == <<" ", "<", "<", "=", " ">>
t_TILDE == <<"~">>
t_BANG == <<"!">>
t_UPLUS == <<"+">>
t_UMINUS == <<"-">>
t_CMP_EQ == <<"=", "=">>
t_CMP_NE == <<"!", "=">>
t_CMP_LT == <<"<">>
t_CMP_GT == <<">">>
t_CMP_GE == <<">", "=">>
t_CMP_LE == <<"<", "=">>
t_AND == <<" ", "&", "&", " ">>
t_OR == <<" ", "|", "|", " ">>
t_void == <<"v", "o", "i", "d">>
t_bool == <<"b", "o", "o", "l">>
t_int == <<"i", "n", "t">>
t_double == <<"d", "o", "u", "b", "l", "e">>
t_char == <<"c", "h", "a", "r">>
t_short == <<"s", "h", "o", "r", "t">>
t_long == <<"l", "o", "n", "g">>
t_float == <<"f", "l", "o", "a", "t">>
t_okl == <<"o", "k", "l">>
t_range == <<"r", "a", "n", "g", "e">>
t_len == <<"l", "e", "n">>
t_abs == <<"a", "b", "s">>
t_okl_range == <<"o", "k", "l", ".", "r", "a", "n", "g", "e">>
t_at_okl_kernel == <<"@", "o", "k", "l", ".", "k", "e", "r", "n", "e", "l">>
t_at_kernel == <<"@", "k", "e", "r", "n", "e", "l">>
t_kernel == <<"k", "e", "r", "n", "e", "l">>
t_break == <<"b", "r", "e", "a", "k", ";">>
t_continue == <<"c", "o", "n", "t", "i", "n", "u", "e", ";">>
t_if_open == <<"i", "f", " ", "(">>
t_else == <<"e", "l", "s", "e", " ">>
t_for_open == <<"f", "o", "r", " ", "(", "i", "n", "t", " ">>
t_SEMI_SP == <<";", " ">>
t_LT_SP == <<" ", "<", " ">>
t_INC == <<"+", "+">>
t_DEC == <<"-", "-">>
t_true == <<"t", "r", "u", "e">>
t_false == <<"f", "a", "l", "s", "e">>
t_NULL == <<"N", "U", "L", "L">>
t_return == <<"r", "e", "t", "u", "r", "n", " ">>
t_List == <<"L", "i", "s", "t">>
t_Const == <<"C", "o", "n", "s", "t">>
t_Exclusive == <<"E", "x", "c", "l", "u", "s", "i", "v", "e">>
t_Shared == <<"S", "h", "a", "r", "e", "d">>
t_const_sp == <<"c", "o", "n", "s", "t", " ">>
t_exclusive_sp == <<"@", "e", "x", "c", "l", "u", "s", "i", "v", "e", " ">>
t_shared_sp == <<"@", "s", "h", "a", "r", "e", "d", " ">>
t_void_sp == <<"v", "o", "i", "d", " ">>
t_while_open == <<"w", "h", "i", "l", "e", " ", "(">>
t_EMPTY_BODY == <<" ", "{", "}">>
t_BODY_OPEN == <<" ", "{", "\n">>
t_a == <<"a">>
t_b == <<"b">>
t_c == <<"c">>
t_i == <<"i">>
t_n == <<"n">>
t_x == <<"x">>
t_y == <<"y">>
t_u == <<"u">>
t_N == <<"N">>
t_v == <<"v">>
t_add == <<"a", "d", "d">>
t_root == <<"r", "o", "o", "t">>
t_B == <<"B">>
t_C == <<"C">>
t_D == <<"D">>
t_foo == <<"f", "o", "o">>
t_xs == <<"x", "s">>
t_ranges == <<"r", "a", "n", "g", "e", "s">>
t_staticmethod == <<"s", "t", "a", "t", "i", "c", "m", "e", "t", "h", "o", "d">>
t_p == <<"p">>
t_np == <<"n", "p">>

-----------------------------------------------------------------------------
(* Python str operations.                                                  *)

RECURSIVE Join(_, _)
\* sep.join(parts)
Join(sep, parts) ==
    IF Len(parts) = 0 THEN <<>>
    ELSE IF Len(parts) = 1 THEN parts[1]
    ELSE parts[1] \o sep \o Join(sep, Tail(parts))

\* s.startswith(p)
StartsWith(s, p) == Len(s) >= Len(p) /\ SubSeq(s, 1, Len(p)) = p

\* s.endswith(p)
EndsWith(s, p) == Len(s) >= Len(p) /\ SubSeq(s, Len(s) - Len(p) + 1, Len(s)) = p

\* ' ' * k
Spaces(k) == [j \in 1..k |-> " "]

Digit(d) == <<"0", "1", "2", "3", "4", "5", "6", "7", "8", "9">>[d + 1]

RECURSIVE IntToText(_)
\* str(k) for an int k >= 0
IntToText(k) ==
    IF k < 10 THEN <<Digit(k)>> ELSE IntToText(k \div 10) \o <<Digit(k % 10)>>

\* A format string is a sequence of pieces: literal text, or a replacement
\* field {left} / {right} / {value}.
Lit(s) == [k |-> "lit", s |-> s]
Fld(name) == [k |-> name, s |-> <<>>]

RECURSIVE Format(_, _)
\* fmt.format(**args), args a record of texts
Format(fmt, args) ==
    IF Len(fmt) = 0 THEN <<>>
    ELSE (IF fmt[1].k = "lit" THEN fmt[1].s ELSE args[fmt[1].k])
         \o Format(Tail(fmt), args)

\* d.get(key) on a dict kept as a sequence of [key, value]; Missing when absent
HasKey(d, key) == \E j \in 1..Len(d) : d[j].key = key
DictGet(d, key) == d[CHOOSE j \in 1..Len(d) : d[j].key = key].value
\* d[key] = value: replaces in place, else appends (insertion order)
DictSet(d, key, value) ==
    IF HasKey(d, key)
    THEN [j \in 1..Len(d) |-> IF d[j].key = key THEN [key |-> key, value |-> value] ELSE d[j]]
    ELSE Append(d, [key |-> key, value |-> value])

-----------------------------------------------------------------------------
(* Module-level tables.                                                    *)

INDENT_TAB == <<" ", " ">>

UNARY_OP_FORMATS ==
    [Invert |-> <<Lit(t_TILDE), Fld("value")>>,
     Not    |-> <<Lit(t_BANG), Fld("value")>>,
     UAdd   |-> <<Lit(t_UPLUS), Fld("value")>>,
     USub   |-> <<Lit(t_UMINUS), Fld("value")>>]

BIN_OP_FORMATS ==
    [Add      |-> <<Fld("left"), Lit(t_PLUS), Fld("right")>>,
     Sub      |-> <<Fld("left"), Lit(t_MINUS), Fld("right")>>,
     Mult     |-> <<Fld("left"), Lit(t_TIMES), Fld("right")>>,
     Div      |-> <<Fld("left"), Lit(t_DIV), Fld("right")>>,
     Mod      |-> <<Fld("left"), Lit(t_MOD), Fld("right")>>,
     Pow      |-> <<Lit(t_POW_OPEN), Fld("left"), Lit(t_COMMA_SP), Fld("right"), Lit(t_RPAREN)>>,
     LShift   |-> <<Fld("left"), Lit(t_SHL), Fld("right")>>,
     RShift   |-> <<Fld("left"), Lit(t_SHR), Fld("right")>>,
     BitOr    |-> <<Fld("left"), Lit(t_BOR), Fld("right")>>,
     BitAnd   |-> <<Fld("left"), Lit(t_BAND), Fld("right")>>,
     FloorDiv |-> <<Lit(t_FLOOR_OPEN), Fld("left"), Lit(t_DIV), Fld("right"), Lit(t_RPAREN)>>]

AUG_OP_FORMATS ==
    [Add      |-> <<Fld("left"), Lit(t_IADD), Fld("right")>>,
     Sub      |-> <<Fld("left"), Lit(t_ISUB), Fld("right")>>,
     Mult     |-> <<Fld("left"), Lit(t_IMUL), Fld("right")>>,
     Div      |-> <<Fld("left"), Lit(t_IDIV), Fld("right")>>,
     Mod      |-> <<Fld("left"), Lit(t_IMOD), Fld("right")>>,
     Pow      |-> <<Fld("left"), Lit(t_IPOW_OPEN), Fld("left"), Lit(t_COMMA_SP), Fld("right"), Lit(t_RPAREN)>>,
     LShift   |-> <<Fld("left"), Lit(t_SHL), Fld("right")>>,
     RShift   |-> <<Fld("left"), Lit(t_ISHR), Fld("right")>>,
     BitOr    |-> <<Fld("left"), Lit(t_IBOR), Fld("right")>>,
     BitAnd   |-> <<Fld("left"), Lit(t_IBAND), Fld("right")>>,
     FloorDiv |-> <<Fld("left"), Lit(t_IFLOOR_OPEN), Fld("left"), Lit(t_IDIV), Fld("right"), Lit(t_RPAREN)>>]

COMPARE_OP_STR ==
    [Eq    |-> t_CMP_EQ,
     NotEq |-> t_CMP_NE,
     Lt    |-> t_CMP_LT,
     Gt    |-> t_CMP_GT,
     GtE   |-> t_CMP_GE,
     Is    |-> t_CMP_EQ,
     IsNot |-> t_CMP_NE]

VALID_GLOBAL_NAMES == {t_okl}

\* keyed by the name of type(value); np stands for numpy
VALID_GLOBAL_VALUE_TYPES ==
    [NoneType   |-> t_void,
     bool       |-> t_bool,
     int        |-> t_int,
     float      |-> t_double,
     np_bool_   |-> t_bool,
     np_int8    |-> t_char,
     np_uint8   |-> t_char,
     np_int16   |-> t_short,
     np_uint16  |-> t_short,
     np_int32   |-> t_int,
     np_uint32  |-> t_int,
     np_int64   |-> t_long,
     np_uint64  |-> t_long,
     np_float32 |-> t_float,
     np_float64 |-> t_double]

VALID_BUILTINS == {t_range, t_len}

OKL_DECORATORS == <<[key |-> t_at_okl_kernel, value |-> t_at_kernel]>>

-----------------------------------------------------------------------------
(* Python objects.                                                         *)

\* None
NoneVal == [type |-> "NoneType"]

\* No diagnostic: the result carries no TransformError message
NoDiag == [message |-> "", shown |-> {}, caret |-> -1]

\* A method's result: the exception raised ("None" when it returned), the
\* value returned, and the instance and module globals as it left them.
Returns(self, g, val) == [exc |-> "None", val |-> val, self |-> self, G |-> g, err |-> NoDiag]
Raises(exc, self, g, err) == [exc |-> exc, val |-> <<>>, self |-> self, G |-> g, err |-> err]

\* The rest of a method after a call: skipped, with the call's exception
\* passed on, when the call raised
Then(r, rest(_)) == IF r.exc # "None" THEN r ELSE rest(r)

\* The process: the module's namespace (its global variables by name) and,
\* for stating what happened in which order, the trace of the steps taken.
\* global name = value, in the module's namespace
SetGlobal(g, name, value) ==
    [g EXCEPT !.module = [k \in DOMAIN g.module \cup {name} |->
                              IF k = name THEN value ELSE g.module[k]]]

\* Appends a step to the trace
Log(g, ev, fn) == [g EXCEPT !.trace = Append(@, [ev |-> ev, fn |-> fn])]

\* Appends a call of raise_error, with the node it was handed, to the trace
LogRaise(g, fn, node) ==
    [g EXCEPT !.trace = Append(@, [ev |-> "raise_error", fn |-> fn, node |-> node])]

\* The name a method of class Oklifier really binds when it writes
\* "global __last_error_node": inside a class body an identifier with two
\* leading underscores is rewritten with the class name in front.
MangledSlot == "_Oklifier__last_error_node"

\* The module namespace after the module body ran (line 97 is outside the class)
ModuleGlobals == [module |-> [k \in {"__last_error_node"} |-> NoneVal], trace |-> <<>>]

\* get_last_error_node: a static method, it reads the mangled name
get_last_error_node(g) ==
    IF MangledSlot \in DOMAIN g.module
    THEN Returns(NoneVal, g, g.module[MangledSlot])
    ELSE Raises("NameError", NoneVal, g, NoDiag)

\* raise_error
raise_error(self, g, node, message) ==
    LET g1 == LogRaise(SetGlobal(g, MangledSlot, node), self.obj.fn, node) IN
    IF "lineno" \notin DOMAIN node
    THEN Raises("AttributeError", self, g1, NoDiag)
    ELSE LET error_line == node.lineno - 1
             char_pos == node.col_offset
             lines == {l \in (error_line - 2)..(error_line + 2) :
                           0 <= l /\ l < self.source.nlines}
         IN  IF ~self.source.present
             THEN Raises("TransformError", self, g1,
                        [message |-> message, shown |-> {}, caret |-> -1])
             ELSE IF lines = {}
             THEN Raises("ValueError", self, g1, NoDiag)
             ELSE Raises("TransformError", self, g1,
                        [message |-> message,
                         shown |-> {l + 1 : l \in lines},
                         caret |-> IF error_line \in lines THEN char_pos ELSE -1])
-----------------------------------------------------------------------------
(* Scope tracking.                                                         *)

\* add_to_scope: IndexError when no block is open
add_to_scope(self, g, var_name) ==
    IF Len(self.scope_stack) = 0
    THEN Raises("IndexError", self, g, NoDiag)
    ELSE Returns([self EXCEPT !.scope_stack[Len(self.scope_stack)] = @ \cup {var_name}],
                 g, NoneVal)

\* is_defined
is_defined(self, var_name) ==
    \E j \in 1..Len(self.scope_stack) : var_name \in self.scope_stack[j]

\* py_to_c_type
py_to_c_type(type_name) == type_name

-----------------------------------------------------------------------------
(* Node translators.                                                       *)

\* stringify_Name; also called directly by stringify_annotation
stringify_Name(self, g, node, indent) ==
    LET name == node.id IN
    Returns(self, g, IF HasKey(self.globals, name) /\ DictGet(self.globals, name) # <<>>
                     THEN DictGet(self.globals, name)
                     ELSE name)

\* stringify_constant; NoneVal stands for the None it returns
stringify_constant(value) ==
    IF value = "True" THEN [some |-> TRUE, s |-> t_true]
    ELSE IF value = "False" THEN [some |-> TRUE, s |-> t_false]
    ELSE IF value = "None" THEN [some |-> TRUE, s |-> t_NULL]
    ELSE [some |-> FALSE, s |-> <<>>]

\* stringify_NameConstant
stringify_NameConstant(self, g, node, indent) ==
    LET value == stringify_constant(node.const) IN
    IF ~value.some
    THEN raise_error(self, g, node, "Cannot handle NameConstant")
    ELSE Returns(self, g, value.s)

\* stringify_Num
stringify_Num(self, g, node, indent) == Returns(self, g, IntToText(node.n))

\* stringify_Pass, stringify_Break, stringify_Continue
stringify_Pass(self, g, node, indent) == Returns(self, g, <<>>)
stringify_Break(self, g, node, indent) == Returns(self, g, t_break)
stringify_Continue(self, g, node, indent) == Returns(self, g, t_continue)

\* get_range, get_okl_range: the (start, end, step) both return
get_range(node) == [start |-> 0, end |-> 10, step |-> 1]
get_okl_range(node) == [start |-> 0, end |-> 10, step |-> 1]

\* split_subscript
split_subscript(self, g, node) ==
    IF node.slice.type # "Index"
    THEN raise_error(self, g, node.slice, "Can only handle single access slices")
    ELSE Returns(self, g, <<node.value, node.slice.value>>)

RECURSIVE stringify_node(_, _, _, _)
RECURSIVE stringify_each(_, _, _, _)
RECURSIVE stringify_block(_, _, _, _)
RECURSIVE stringify_annotation(_, _, _, _)

\* The generator expressions "self.stringify_node(n, indent) for n in nodes":
\* the texts in order, ending at the first node that raises
stringify_each(self, g, nodes, indent) ==
    IF Len(nodes) = 0 THEN Returns(self, g, <<>>)
    ELSE Then(stringify_node(self, g, nodes[1], indent), LAMBDA r :
         Then(stringify_each(r.self, r.G, Tail(nodes), indent), LAMBDA rs :
         Returns(rs.self, rs.G, <<r.val>> \o rs.val)))

\* stringify_list_annotation
stringify_list_annotation(self, g, node, var_name) ==
    IF node.type # "Tuple"
    THEN Then(stringify_annotation(self, g, node, <<>>), LAMBDA r :
         Returns(r.self, r.G,
                 (IF EndsWith(r.val, t_STAR) THEN r.val ELSE r.val \o t_SP)
                 \o t_STAR \o var_name))
    ELSE IF Len(node.elts) = 0
    THEN Raises("ValueError", self, g, NoDiag)
    ELSE Then(stringify_annotation(self, g, node.elts[1], <<>>), LAMBDA r :
         Then(stringify_each(r.self, r.G, Tail(node.elts), <<>>), LAMBDA rs :
         Returns(rs.self, rs.G,
                 r.val \o t_SP \o var_name \o
                 Join(<<>>, [j \in 1..Len(rs.val) |->
                                t_LBRACK \o rs.val[j] \o t_RBRACK]))))

\* The qualifier text of stringify_annotation for Const, Exclusive, Shared
Qualifier(type_str) ==
    IF type_str = t_Const THEN t_const_sp
    ELSE IF type_str = t_Exclusive THEN t_exclusive_sp
    ELSE t_shared_sp

\* stringify_annotation
stringify_annotation(self, g, node, var_name) ==
    IF node = NoneVal THEN Returns(self, g, var_name)
    ELSE IF node.type = "Name"
    THEN Then(stringify_Name(self, g, node, <<>>), LAMBDA r :
         Returns(self, g, IF var_name # <<>>
                          THEN py_to_c_type(r.val) \o t_SP \o var_name
                          ELSE py_to_c_type(r.val)))
    ELSE IF node.type = "NameConstant"
    THEN Then(stringify_NameConstant(self, g, node, <<>>), LAMBDA r :
         IF r.val = t_NULL
         THEN Returns(self, g, IF var_name # <<>> THEN t_void_sp \o var_name ELSE t_void)
         ELSE raise_error(self, g, node, "Cannot handle type annotation"))
    ELSE IF node.type = "Subscript"
    THEN Then(split_subscript(self, g, node), LAMBDA sp :
         Then(stringify_node(sp.self, sp.G, sp.val[1], <<>>), LAMBDA rv :
         IF rv.val = t_List
         THEN stringify_list_annotation(rv.self, rv.G, sp.val[2], var_name)
         ELSE IF rv.val \in {t_Const, t_Exclusive, t_Shared}
         THEN Then(stringify_annotation(rv.self, rv.G, sp.val[2], var_name), LAMBDA r :
              Returns(r.self, r.G, Qualifier(rv.val) \o r.val))
         ELSE raise_error(rv.self, rv.G, node, "Cannot handle type annotation")))
    ELSE raise_error(self, g, node, "Cannot handle type annotation")

RECURSIVE ArgumentsLoop(_, _, _, _, _, _)
\* The loop of stringify_Arguments over the positional and keyword-only args
ArgumentsLoop(self, g, args, index, args_str, indent) ==
    IF index > Len(args) THEN Returns(self, g, args_str)
    ELSE Then(stringify_annotation(self, g, args[index].annotation, args[index].arg),
              LAMBDA r :
         IF r.val = args[index].arg
         THEN raise_error(r.self, r.G, args[index], "Arguments must have a type annotation")
         ELSE ArgumentsLoop(r.self, r.G, args, index + 1,
                            args_str \o r.val \o
                            (IF index < Len(args) THEN t_COMMA_NL \o indent ELSE <<>>),
                            indent))

\* stringify_Arguments
stringify_Arguments(self, g, args, indent) ==
    IF args.kwarg # NoneVal
    THEN raise_error(self, g, args, "Cannot handle **kwargs")
    ELSE IF args.vararg # NoneVal
    THEN raise_error(self, g, args, "Cannot handle *args")
    ELSE IF Len(args.defaults) > 0 \/ Len(args.kw_defaults) > 0
    THEN raise_error(self, g, args, "Cannot handle default arguments yet")
    ELSE ArgumentsLoop(self, g, args.args \o args.kwonlyargs, 1, <<>>, indent)

\* stringify_AnnAssign
stringify_AnnAssign(self, g, node, indent) ==
    Then(stringify_node(self, g, node.target, <<>>), LAMBDA t :
    Then(add_to_scope(t.self, t.G, t.val), LAMBDA sc :
    Then(stringify_annotation(sc.self, sc.G, node.annotation, t.val), LAMBDA a :
    IF node.value = NoneVal THEN Returns(a.self, a.G, a.val \o t_SEMI)
    ELSE Then(stringify_node(a.self, a.G, node.value, <<>>), LAMBDA v :
         Returns(v.self, v.G, a.val \o t_EQ_SP \o v.val \o t_SEMI)))))

\* stringify_Assign
stringify_Assign(self, g, node, indent) ==
    IF Len(node.targets) # 1
    THEN raise_error(self, g, node, "Cannot handle assignment of more than 1 value")
    ELSE Then(stringify_node(self, g, node.targets[1], indent), LAMBDA t :
         IF node.targets[1].type = "Name" /\ ~is_defined(t.self, t.val)
         THEN raise_error(t.self, t.G, node, "Cannot handle untyped variables")
         ELSE Then(stringify_node(t.self, t.G, node.value, indent), LAMBDA v :
              Returns(v.self, v.G, t.val \o t_EQ_SP \o v.val \o t_SEMI)))

\* stringify_Attribute
stringify_Attribute(self, g, node, indent) ==
    Then(stringify_node(self, g, node.value, indent), LAMBDA r :
    Returns(r.self, r.G, r.val \o t_DOT \o node.attr))

\* str_format.format(left=stringify(left), right=stringify(right))
FormatLeftRight(self, g, str_format, left, right, indent) ==
    Then(stringify_node(self, g, left, indent), LAMBDA l :
    Then(stringify_node(l.self, l.G, right, indent), LAMBDA r :
    Returns(r.self, r.G, Format(str_format, [left |-> l.val, right |-> r.val]))))

\* stringify_AugAssign
stringify_AugAssign(self, g, node, indent) ==
    IF node.op.type \notin DOMAIN AUG_OP_FORMATS
    THEN raise_error(self, g, node.op, "Unable to handle operator")
    ELSE FormatLeftRight(self, g, AUG_OP_FORMATS[node.op.type],
                         node.target, node.value, indent)

\* stringify_BinOp
stringify_BinOp(self, g, node, indent) ==
    IF node.op.type \notin DOMAIN BIN_OP_FORMATS
    THEN raise_error(self, g, node.op, "Unable to handle operator")
    ELSE FormatLeftRight(self, g, BIN_OP_FORMATS[node.op.type],
                         node.left, node.right, indent)

\* stringify_BoolOp
stringify_BoolOp(self, g, node, indent) ==
    Then(stringify_each(self, g, node.values, indent), LAMBDA rs :
    Returns(rs.self, rs.G, Join(IF node.op.type = "And" THEN t_AND ELSE t_OR, rs.val)))

\* stringify_Call: the arguments are rendered before the callee
stringify_Call(self, g, node, indent) ==
    Then(stringify_each(self, g, node.args, <<>>), LAMBDA rs :
    Then(stringify_node(rs.self, rs.G, node.func, indent), LAMBDA f :
    Returns(f.self, f.G, f.val \o t_LPAREN \o Join(t_COMMA_SP, rs.val) \o t_RPAREN)))

\* One entry of the list "ops" of stringify_Compare: an ast class, or the str
\* a class was mapped to
OpClass(cls) == [isclass |-> TRUE, cls |-> cls, s |-> <<>>]
OpStr(s) == [isclass |-> FALSE, cls |-> "", s |-> s]

\* "key in COMPARE_OP_STR": only the ast classes of the table are keys
IsCompareKey(e) == e.isclass /\ e.cls \in DOMAIN COMPARE_OP_STR

\* The join that ends stringify_Compare
CompareJoin(ops, values) ==
    Join(t_AND, [index \in 1..(Len(values) - 1) |->
                    values[index] \o t_SP \o ops[index].s \o t_SP \o values[index + 1]])

RECURSIVE CompareLoop(_, _, _, _, _, _, _)
\* The loop of stringify_Compare: it iterates over the list of classes it was
\* started on, while its body rebinds "ops" to the mapped strings and
\* renders the operands
CompareLoop(self, g, node, indent, op_index, ops, values) ==
    IF op_index > Len(node.ops)
    THEN Returns(self, g, CompareJoin(ops, values))
    ELSE IF node.ops[op_index].type \notin DOMAIN COMPARE_OP_STR
    THEN raise_error(self, g, node.ops[op_index], "Cannot handle comparison operator")
    ELSE IF \E j \in 1..Len(ops) : ~IsCompareKey(ops[j])
    THEN Raises("KeyError", self, g, NoDiag)
    ELSE Then(stringify_each(self, g, <<node.left>> \o node.comparators, indent),
              LAMBDA rs :
         CompareLoop(rs.self, rs.G, node, indent, op_index + 1,
                     [j \in 1..Len(ops) |-> OpStr(COMPARE_OP_STR[ops[j].cls])], rs.val))

\* stringify_Compare
stringify_Compare(self, g, node, indent) ==
    CompareLoop(self, g, node, indent, 1,
                [j \in 1..Len(node.ops) |-> OpClass(node.ops[j].type)], <<>>)

\* stringify_body
stringify_body(self, g, nodes, indent) ==
    Then(stringify_block(self, g, nodes, indent \o INDENT_TAB), LAMBDA r :
    IF r.val = <<>> THEN Returns(r.self, r.G, t_EMPTY_BODY)
    ELSE Returns(r.self, r.G, t_BODY_OPEN \o r.val \o t_NL \o indent \o t_RBRACE))

\* The else branch of stringify_If: an elif is rendered as a nested if
stringify_orelse(self, g, orelse_nodes, indent) ==
    IF Len(orelse_nodes) = 1 /\ orelse_nodes[1].type = "If"
    THEN stringify_node(self, g, orelse_nodes[1], indent)
    ELSE stringify_body(self, g, orelse_nodes, indent)

\* stringify_If
stringify_If(self, g, node, indent) ==
    Then(stringify_node(self, g, node.test, <<>>), LAMBDA t :
    Then(stringify_body(t.self, t.G, node.body, indent), LAMBDA b :
    IF Len(node.orelse) = 0
    THEN Returns(b.self, b.G, t_if_open \o t.val \o t_RPAREN \o b.val)
    ELSE Then(stringify_orelse(b.self, b.G, node.orelse, indent), LAMBDA e :
         Returns(e.self, e.G, t_if_open \o t.val \o t_RPAREN \o b.val
                              \o t_NL \o indent \o t_else \o e.val))))

\* stringify_Index, stringify_Expr
stringify_Index(self, g, node, indent) == stringify_node(self, g, node.value, indent)
stringify_Expr(self, g, node, indent) == stringify_node(self, g, node.value, indent)

\* split_for_iter
split_for_iter(self, g, node) ==
    Then(stringify_node(self, g, node, <<>>), LAMBDA r :
    IF StartsWith(r.val, t_range) THEN Returns(r.self, r.G, get_range(node))
    ELSE IF StartsWith(r.val, t_okl_range) THEN Returns(r.self, r.G, get_okl_range(node))
    ELSE raise_error(r.self, r.G, node, "Unable to transform this iterable"))

\* The step text stringify_For builds from an int step other than 0
ForStep(index, step) ==
    IF step > 0
    THEN IF step = 1 THEN t_INC \o index
         ELSE index \o t_IADD \o IntToText(step)
    ELSE IF step = -1 THEN t_DEC \o index
         ELSE index \o t_ISUB \o IntToText(-step)

\* The header stringify_For builds: for (int i = start; i < end; step)
for_str(index, range) ==
    t_for_open \o index \o t_EQ_SP \o IntToText(range.start) \o t_SEMI_SP
    \o index \o t_LT_SP \o IntToText(range.end) \o t_SEMI_SP
    \o ForStep(index, range.step) \o t_RPAREN

\* stringify_For
stringify_For(self, g, node, indent) ==
    IF node.target.type # "Name"
    THEN raise_error(self, g, node.target,
                     "Can only handle one variable for the for-loop index")
    ELSE Then(stringify_node(self, g, node.target, indent), LAMBDA ix :
         Then(split_for_iter(ix.self, ix.G, node.iter), LAMBDA sp :
         IF sp.val.step = 0
         THEN raise_error(sp.self, sp.G, node.iter,
                          "Cannot have for-loop with a step size of 0")
         ELSE Then(stringify_body(sp.self, sp.G, node.body, indent), LAMBDA b :
              Returns(b.self, b.G, for_str(ix.val, sp.val) \o b.val))))

RECURSIVE DecoratorsLoop(_, _, _, _, _)
\* The loop of stringify_function_signature over node.decorator_list
DecoratorsLoop(self, g, decorator_list, j, decorators) ==
    IF j > Len(decorator_list) THEN Returns(self, g, decorators)
    ELSE Then(stringify_node(self, g, decorator_list[j], <<>>), LAMBDA r :
         IF ~HasKey(OKL_DECORATORS, t_AT \o r.val)
         THEN raise_error(r.self, r.G, decorator_list[j], "Cannot handle decorator")
         ELSE DecoratorsLoop(r.self, r.G, decorator_list, j + 1,
                             decorators \o DictGet(OKL_DECORATORS, t_AT \o r.val) \o t_SP))

\* The text of a signature up to its opening parenthesis
func_str(decorators, return_type, name) ==
    decorators \o return_type \o t_SP \o name \o t_LPAREN

\* stringify_function_signature
stringify_function_signature(self, g, node, semicolon) ==
    Then(stringify_annotation(self, g, node.returns, <<>>), LAMBDA rt :
    IF rt.val = <<>>
    THEN raise_error(rt.self, rt.G, node, "Function must have a return value type")
    ELSE Then(DecoratorsLoop(rt.self, rt.G, node.decorator_list, 1, <<>>), LAMBDA d :
         Then(stringify_Arguments(d.self, d.G, node.args,
                                  Spaces(Len(func_str(d.val, rt.val, node.name)))),
              LAMBDA a :
         Returns(a.self, a.G,
                 func_str(d.val, rt.val, node.name) \o a.val \o t_RPAREN
                 \o (IF semicolon THEN t_SEMI ELSE <<>>)))))

\* stringify_FunctionDef
stringify_FunctionDef(self, g, node, indent) ==
    Then(stringify_function_signature(self, g, node, FALSE), LAMBDA s :
    Then(stringify_body(s.self, s.G, node.body, indent), LAMBDA b :
    Returns(b.self, b.G, s.val \o b.val)))

\* stringify_List
stringify_List(self, g, node, indent) ==
    Then(stringify_each(self, g, node.elts, indent), LAMBDA rs :
    Returns(rs.self, rs.G, t_LBRACE \o Join(t_COMMA_SP, rs.val) \o t_RBRACE))

\* stringify_Module
stringify_Module(self, g, node, indent) == stringify_block(self, g, node.body, indent)

\* stringify_Return
stringify_Return(self, g, node, indent) ==
    Then(stringify_node(self, g, node.value, <<>>), LAMBDA r :
    Returns(r.self, r.G, t_return \o r.val \o t_SEMI))

\* stringify_Subscript
stringify_Subscript(self, g, node, indent) ==
    Then(split_subscript(self, g, node), LAMBDA sp :
    Then(stringify_node(sp.self, sp.G, sp.val[1], indent), LAMBDA v :
    Then(stringify_node(v.self, v.G, sp.val[2], indent), LAMBDA x :
    Returns(x.self, x.G, v.val \o t_LBRACK \o x.val \o t_RBRACK))))

\* stringify_UnaryOp
stringify_UnaryOp(self, g, node, indent) ==
    IF node.op.type \notin DOMAIN UNARY_OP_FORMATS
    THEN raise_error(self, g, node.op, "Unable to handle operator")
    ELSE Then(stringify_node(self, g, node.operand, indent), LAMBDA r :
         Returns(r.self, r.G, Format(UNARY_OP_FORMATS[node.op.type], [value |-> r.val])))

\* stringify_While
stringify_While(self, g, node, indent) ==
    IF Len(node.orelse) > 0
    THEN raise_error(self, g, node.orelse[1], "Cannot handle statement after while")
    ELSE Then(stringify_node(self, g, node.test, <<>>), LAMBDA t :
         Then(stringify_body(t.self, t.G, node.body, indent), LAMBDA b :
         Returns(b.self, b.G, t_while_open \o t.val \o t_RPAREN \o b.val)))

\* stringify_node: the dispatch through stringify_node_map (lines 116-142)
stringify_node(self, g, node, indent) ==
    CASE node.type = "AnnAssign"    -> stringify_AnnAssign(self, g, node, indent)
      [] node.type = "Assign"       -> stringify_Assign(self, g, node, indent)
      [] node.type = "Attribute"    -> stringify_Attribute(self, g, node, indent)
      [] node.type = "AugAssign"    -> stringify_AugAssign(self, g, node, indent)
      [] node.type = "BinOp"        -> stringify_BinOp(self, g, node, indent)
      [] node.type = "BoolOp"       -> stringify_BoolOp(self, g, node, indent)
      [] node.type = "Break"        -> stringify_Break(self, g, node, indent)
      [] node.type = "Call"         -> stringify_Call(self, g, node, indent)
      [] node.type = "Continue"     -> stringify_Continue(self, g, node, indent)
      [] node.type = "Compare"      -> stringify_Compare(self, g, node, indent)
      [] node.type = "If"           -> stringify_If(self, g, node, indent)
      [] node.type = "Index"        -> stringify_Index(self, g, node, indent)
      [] node.type = "Expr"         -> stringify_Expr(self, g, node, indent)
      [] node.type = "For"          -> stringify_For(self, g, node, indent)
      [] node.type = "FunctionDef"  -> stringify_FunctionDef(self, g, node, indent)
      [] node.type = "List"         -> stringify_List(self, g, node, indent)
      [] node.type = "Module"       -> stringify_Module(self, g, node, indent)
      [] node.type = "Name"         -> stringify_Name(self, g, node, indent)
      [] node.type = "NameConstant" -> stringify_NameConstant(self, g, node, indent)
      [] node.type = "Num"          -> stringify_Num(self, g, node, indent)
      [] node.type = "Pass"         -> stringify_Pass(self, g, node, indent)
      [] node.type = "Return"       -> stringify_Return(self, g, node, indent)
      [] node.type = "Subscript"    -> stringify_Subscript(self, g, node, indent)
      [] node.type = "UnaryOp"      -> stringify_UnaryOp(self, g, node, indent)
      [] node.type = "While"        -> stringify_While(self, g, node, indent)
      [] OTHER -> raise_error(self, g, node, "Unable to handle node type")

\* "\n".join(indent + node_str for node_str in ... if node_str)
block_str(strs, indent) ==
    Join(t_NL, [j \in 1..Len(SelectSeq(strs, LAMBDA node_str : node_str # <<>>)) |->
                   indent \o SelectSeq(strs, LAMBDA node_str : node_str # <<>>)[j]])

\* stringify_block: the scope pushed on entry is popped only when every
\* statement was rendered
stringify_block(self, g, nodes, indent) ==
    Then(stringify_each([self EXCEPT !.scope_stack = Append(@, {})], g, nodes, indent),
         LAMBDA rs :
    Returns([rs.self EXCEPT !.scope_stack = SubSeq(@, 1, Len(@) - 1)],
            rs.G, block_str(rs.val, indent)))

-----------------------------------------------------------------------------
(* The translator object.                                                  *)

\* The objects handed to py2okl and to Oklifier: a tree, a function, a list
AstObj(node) == [kind |-> "ast", fn |-> "", node |-> node, items |-> <<>>]
FuncObj(fn) == [kind |-> "function", fn |-> fn, node |-> NoneVal, items |-> <<>>]
ListObj(items) == [kind |-> "list", fn |-> "", node |-> NoneVal, items |-> items]

\* The most nested Oklifier(...) calls the interpreter's stack has room for
RecursionLimit == 5

\* __init__ that leaves the scope stack of the instance before it in place
InitFieldsStale(prev, obj) ==
    [obj |-> obj,
     source |-> [present |-> FALSE, nlines |-> 0],
     globals |-> <<>>,
     functions |-> <<>>,
     scope_stack |-> IF "scope_stack" \in DOMAIN prev THEN prev.scope_stack ELSE <<>>,
     root |-> NoneVal]

\* The fields __init__ assigns before it looks at obj (lines 100-105); prev is
\* the instance that existed before, of which nothing is kept
InitFields(prev, obj) ==
    [obj |-> obj,
     source |-> [present |-> FALSE, nlines |-> 0],
     globals |-> <<>>,
     functions |-> <<>>,
     scope_stack |-> <<>>,
     root |-> NoneVal]

\* to_str
to_str(self, g) ==
    Then(stringify_node(self, Log(g, "traverse", self.obj.fn), self.root, <<>>), LAMBDA r :
    Returns(r.self, r.G,
            Join(t_BLANK,
                 [j \in 1..Len(self.functions) |-> self.functions[j].value.signature]
                 \o [j \in 1..Len(self.functions) |-> self.functions[j].value.source]
                 \o <<r.val>>)))

\* An exception of a call on another instance, as this instance's method
\* lets it through
Propagate(self, r) == IF r.exc # "None" THEN Raises(r.exc, self, r.G, r.err) ELSE r

\* The entry of self.functions for a captured function: the signature and the
\* source that its own Oklifier gives
FunctionEntry(self, oklifier, fn) ==
    Then(Propagate(self, stringify_function_signature(
                             oklifier.self, Log(oklifier.G, "signature", fn),
                             oklifier.self.root.body[1], TRUE)), LAMBDA sig :
    Then(Propagate(self, to_str(sig.self, sig.G)), LAMBDA src :
    Returns(self, src.G, [signature |-> sig.val, source |-> src.val])))

RECURSIVE Oklifier(_, _, _, _, _)
RECURSIVE InspectGlobals(_, _, _, _, _, _)

\* inspect_function_closure without its check of the builtins
InspectBuiltinsUnchecked(self, g, builtins) == Returns(self, g, NoneVal)

\* The loop of inspect_function_closure over closure_vars.builtins
InspectBuiltins(self, g, builtins) ==
    IF \E j \in 1..Len(builtins) : builtins[j] \notin VALID_BUILTINS
    THEN Raises("FunctionClosureError", self, g,
                [message |-> "Unable to transform builtin", shown |-> {}, caret |-> -1])
    ELSE Returns(self, g, NoneVal)

\* The loop of inspect_function_closure over closure_vars.globals
InspectGlobals(hp, self, g, items, j, depth) ==
    IF j > Len(items) THEN Returns(self, g, NoneVal)
    ELSE IF items[j].value.vtype \in DOMAIN VALID_GLOBAL_VALUE_TYPES
    THEN InspectGlobals(hp, [self EXCEPT !.globals =
                                 DictSet(@, items[j].key,
                                         VALID_GLOBAL_VALUE_TYPES[items[j].value.vtype])],
                        g, items, j + 1, depth)
    ELSE IF items[j].value.vtype = "function"
    THEN Then(Propagate(self, Oklifier(hp, g, self, FuncObj(items[j].value.fn), depth + 1)),
              LAMBDA oklifier :
         Then(FunctionEntry(self, oklifier, items[j].value.fn), LAMBDA entry :
         InspectGlobals(hp, [self EXCEPT !.functions = DictSet(@, items[j].key, entry.val)],
                        entry.G, items, j + 1, depth)))
    ELSE IF items[j].key \notin VALID_GLOBAL_NAMES
    THEN Raises("FunctionClosureError", self, g,
                [message |-> "Unable to transform non-local variable",
                 shown |-> {}, caret |-> -1])
    ELSE InspectGlobals(hp, self, g, items, j + 1, depth)

\* inspect_function_closure; hp[fn].closure is inspect.getclosurevars(func)
inspect_function_closure(hp, self, g, fn, depth) ==
    Then(InspectGlobals(hp, self, Log(g, "inspect", fn), hp[fn].closure.globals, 1, depth),
         LAMBDA r :
    InspectBuiltins(r.self, r.G, hp[fn].closure.builtins))

\* Oklifier(obj): __init__.  hp holds the function objects by name: the
\* closure variables, the source text's line count and the tree that
\* ast.parse(inspect.getsource(obj)) gives.  depth counts the constructor
\* calls that are still running.
Oklifier(hp, g, prev, obj, depth) ==
    IF depth > RecursionLimit
    THEN Raises("RecursionError", prev, g, NoDiag)
    ELSE IF obj.kind = "ast"
    THEN Returns([InitFields(prev, obj) EXCEPT !.root = obj.node], g, NoneVal)
    ELSE IF obj.kind = "function"
    THEN Then(inspect_function_closure(hp, InitFields(prev, obj), g, obj.fn, depth),
              LAMBDA r :
         Returns([r.self EXCEPT !.source = [present |-> TRUE, nlines |-> hp[obj.fn].nlines],
                                !.root = hp[obj.fn].tree],
                 r.G, NoneVal))
    ELSE Raises("TypeError", InitFields(prev, obj), g, NoDiag)

\* Oklifier(obj).to_str()
Translate(hp, g, prev, obj) ==
    Then(Oklifier(hp, g, prev, obj, 1), LAMBDA oklifier :
    to_str(oklifier.self, oklifier.G))

RECURSIVE Py2oklItems(_, _, _, _, _, _)
\* The list comprehension of py2okl: one Oklifier(item).to_str() per item
Py2oklItems(hp, g, prev, items, j, out) ==
    IF j > Len(items) THEN Returns(prev, g, out)
    ELSE Then(Translate(hp, g, prev, items[j]), LAMBDA s :
         Py2oklItems(hp, s.G, s.self, items, j + 1, Append(out, s.val)))

\* py2okl
py2okl(hp, g, prev, o) ==
    IF o.kind # "list"
    THEN Translate(hp, g, prev, o)
    ELSE Py2oklItems(hp, g, prev, o.items, 1, <<>>)

-----------------------------------------------------------------------------
(* Syntax trees, as ast.parse builds them.  ln is the node's line.         *)

Op(cls) == [type |-> cls]
Name(ln, id) == [type |-> "Name", id |-> id, lineno |-> ln, col_offset |-> 0]
Num(ln, k) == [type |-> "Num", n |-> k, lineno |-> ln, col_offset |-> 0]
NameConstant(ln, const) ==
    [type |-> "NameConstant", const |-> const, lineno |-> ln, col_offset |-> 0]
Str(ln) == [type |-> "Str", lineno |-> ln, col_offset |-> 0]
BinOp(ln, left, op, right) ==
    [type |-> "BinOp", left |-> left, op |-> Op(op), right |-> right,
     lineno |-> ln, col_offset |-> 0]
UnaryOp(ln, op, operand) ==
    [type |-> "UnaryOp", op |-> Op(op), operand |-> operand,
     lineno |-> ln, col_offset |-> 0]
BoolOp(ln, op, values) ==
    [type |-> "BoolOp", op |-> Op(op), values |-> values, lineno |-> ln, col_offset |-> 0]
Compare(ln, left, ops, comparators) ==
    [type |-> "Compare", left |-> left, ops |-> [j \in 1..Len(ops) |-> Op(ops[j])],
     comparators |-> comparators, lineno |-> ln, col_offset |-> 0]
Call(ln, func, args) ==
    [type |-> "Call", func |-> func, args |-> args, lineno |-> ln, col_offset |-> 0]
Attribute(ln, value, attr) ==
    [type |-> "Attribute", value |-> value, attr |-> attr, lineno |-> ln, col_offset |-> 0]
Index(value) == [type |-> "Index", value |-> value]
Slice == [type |-> "Slice"]
Subscript(ln, value, slice) ==
    [type |-> "Subscript", value |-> value, slice |-> slice,
     lineno |-> ln, col_offset |-> 0]
List(ln, elts) == [type |-> "List", elts |-> elts, lineno |-> ln, col_offset |-> 0]
Tuple(ln, elts) == [type |-> "Tuple", elts |-> elts, lineno |-> ln, col_offset |-> 0]

AnnAssign(ln, target, annotation, value) ==
    [type |-> "AnnAssign", target |-> target, annotation |-> annotation,
     value |-> value, lineno |-> ln, col_offset |-> 0]
Assign(ln, targets, value) ==
    [type |-> "Assign", targets |-> targets, value |-> value,
     lineno |-> ln, col_offset |-> 0]
AugAssign(ln, target, op, value) ==
    [type |-> "AugAssign", target |-> target, op |-> Op(op), value |-> value,
     lineno |-> ln, col_offset |-> 0]
Expr(ln, value) == [type |-> "Expr", value |-> value, lineno |-> ln, col_offset |-> 0]
ReturnStmt(ln, value) ==
    [type |-> "Return", value |-> value, lineno |-> ln, col_offset |-> 0]
Pass(ln) == [type |-> "Pass", lineno |-> ln, col_offset |-> 0]
Global(ln) == [type |-> "Global", lineno |-> ln, col_offset |-> 0]
If(ln, test, body, orelse) ==
    [type |-> "If", test |-> test, body |-> body, orelse |-> orelse,
     lineno |-> ln, col_offset |-> 0]
For(ln, target, iter, body) ==
    [type |-> "For", target |-> target, iter |-> iter, body |-> body,
     orelse |-> <<>>, lineno |-> ln, col_offset |-> 0]
While(ln, test, body, orelse) ==
    [type |-> "While", test |-> test, body |-> body, orelse |-> orelse,
     lineno |-> ln, col_offset |-> 0]
Arg(ln, name, annotation) ==
    [type |-> "arg", arg |-> name, annotation |-> annotation,
     lineno |-> ln, col_offset |-> 0]
Arguments(args, vararg, kwonlyargs, kw_defaults, kwarg, defaults) ==
    [type |-> "arguments", args |-> args, vararg |-> vararg,
     kwonlyargs |-> kwonlyargs, kw_defaults |-> kw_defaults,
     kwarg |-> kwarg, defaults |-> defaults]
FunctionDef(ln, name, args, body, decorator_list, returns) ==
    [type |-> "FunctionDef", name |-> name, args |-> args, body |-> body,
     decorator_list |-> decorator_list, returns |-> returns,
     lineno |-> ln, col_offset |-> 0]
Module(body) == [type |-> "Module", body |-> body]

\* A value a closure variable is bound to
Value(vtype) == [vtype |-> vtype, fn |-> ""]
FuncValue(fn) == [vtype |-> "function", fn |-> fn]

\* A function object: what inspect.getclosurevars, inspect.getsource and
\* ast.parse give for it
Function(globals, builtins, nlines, tree) ==
    [closure |-> [globals |-> globals, builtins |-> builtins],
     nlines |-> nlines, tree |-> tree]

-----------------------------------------------------------------------------
(* The program: calls of py2okl.                                           *)

NoRet == [exc |-> "pending", val |-> <<>>, err |-> NoDiag]
NoObj == [kind |-> "none", fn |-> "", node |-> NoneVal, items |-> <<>>]
NoInstance == InitFields(NoneVal, NoObj)

\* No function objects
NoHeap == [fn \in {"-"} |-> Function(<<>>, <<>>, 0, Module(<<>>))]

\* Before the first call, with the input chosen
Start(input) ==
    /\ heap = input.hp
    /\ argument = input.o
    /\ ret = NoRet
    /\ proc = ModuleGlobals
    /\ last = NoInstance
    /\ calls = 0
    /\ history = <<>>

\* py2okl(o)
Invoke(o) ==
    \E r \in {py2okl(heap, [proc EXCEPT !.trace = <<>>], last, o)} :
    /\ argument' = o
    /\ ret' = [exc |-> r.exc, val |-> r.val, err |-> r.err]
    /\ proc' = r.G
    /\ last' = r.self
    /\ calls' = calls + 1
    /\ history' = Append(history, [input |-> o,
                                   outcome |-> [exc |-> r.exc, val |-> r.val, err |-> r.err],
                                   trace |-> r.G.trace])
    /\ UNCHANGED heap

\* The one call on the input chosen at the start
Py2okl == calls = 0 /\ Invoke(argument)

-----------------------------------------------------------------------------
(* Comparison chains.                                                      *)

MaxChain == 2

CompareOps == {"Eq", "NotEq", "Lt", "Gt", "GtE", "Is", "IsNot", "LtE", "In"}
Operands == {Name(1, t_a), Name(1, t_b), Name(1, t_c)}

\* Sequences over S of length lo..hi
SeqsOf(S, lo, hi) == UNION {[1..k -> S] : k \in lo..hi}

CompareInputs ==
    {[hp |-> NoHeap, o |-> AstObj(Compare(1, xs[1], ops, Tail(xs)))] :
        xs \in SeqsOf(Operands, 2, MaxChain + 1), ops \in SeqsOf(CompareOps, 1, MaxChain)}

InitCompare == \E input \in {c \in CompareInputs :
                                 Len(c.o.node.ops) = Len(c.o.node.comparators)} : Start(input)

SpecCompare == InitCompare /\ [][Py2okl]_vars

\* The call on the chosen input has returned or raised
Done == ret.exc # "pending"

\* x0 op1 x1 && x1 op2 x2 && ... for a chain of names, each pair with its own
\* comparator
Conjunction(node) ==
    LET xs == <<node.left>> \o node.comparators IN
    Join(t_AND, [j \in 1..Len(node.ops) |->
                    xs[j].id \o t_SP \o COMPARE_OP_STR[node.ops[j].type] \o t_SP \o xs[j + 1].id])

AllSupported(node) == \A j \in 1..Len(node.ops) : node.ops[j].type \in DOMAIN COMPARE_OP_STR

\* C1: a comparison chain whose comparators are all in COMPARE_OP_STR is
\* translated to the left-to-right conjunction of its pairwise comparisons,
\* each pair with its own comparator.
C1_ChainIsConjunction ==
    (Done /\ argument.node.type = "Compare" /\ AllSupported(argument.node))
        => (ret.exc = "None" /\ ret.val = Conjunction(argument.node))

\* C1 holds for the chains of one comparison
C1_SingleComparison ==
    (Done /\ argument.node.type = "Compare" /\ AllSupported(argument.node)
          /\ Len(argument.node.ops) = 1)
        => (ret.exc = "None" /\ ret.val = Conjunction(argument.node))

-----------------------------------------------------------------------------
(* Closure graphs: a root function and the helper functions it captures.   *)

\* The functions of a closure graph; root captures helpers, helpers capture
\* the helpers after them, so every graph is acyclic
Functions == {"root", "B", "C", "D"}

FnName(fn) ==
    CASE fn = "root" -> t_root
      [] fn = "B" -> t_B
      [] fn = "C" -> t_C
      [] fn = "D" -> t_D

\* The sequences over S without repetition: the orders in which a function
\* body can first mention the helpers of a subset of S
Orders(S) ==
    {s \in SeqsOf(S, 0, Cardinality(S)) : \A j, k \in 1..Len(s) : j # k => s[j] # s[k]}

NoArguments == Arguments(<<>>, NoneVal, <<>>, <<>>, NoneVal, <<>>)

\* def fn() -> int:
\*     h1()
\*     ...
\*     return 0
CallerTree(fn, captures) ==
    Module(<<FunctionDef(1, FnName(fn), NoArguments,
                         [j \in 1..Len(captures) |->
                             Expr(j + 1, Call(j + 1, Name(j + 1, FnName(captures[j])), <<>>))]
                         \o <<ReturnStmt(Len(captures) + 2, Num(Len(captures) + 2, 0))>>,
                         <<>>, Name(1, t_int))>>)

\* The function object of fn when its body calls the helpers in captures
Caller(fn, captures) ==
    Function([j \in 1..Len(captures) |->
                 [key |-> FnName(captures[j]), value |-> FuncValue(captures[j])]],
             <<>>, Len(captures) + 2, CallerTree(fn, captures))

ClosureHeap(ofRoot, ofB, ofC) ==
    [fn \in Functions |->
        CASE fn = "root" -> Caller(fn, ofRoot)
          [] fn = "B" -> Caller(fn, ofB)
          [] fn = "C" -> Caller(fn, ofC)
          [] fn = "D" -> Caller(fn, <<>>)]

ClosureInputs ==
    {[hp |-> ClosureHeap(ofRoot, ofB, ofC), o |-> FuncObj("root")] :
        ofRoot \in Orders({"B", "C", "D"}), ofB \in Orders({"C", "D"}), ofC \in Orders({"D"})}

InitClosure == \E input \in ClosureInputs : Start(input)

SpecClosure == InitClosure /\ [][Py2okl]_vars

\* The helpers a function captures, in the order of its closure variables
Captures(hp, fn) ==
    [j \in 1..Len(hp[fn].closure.globals) |-> hp[fn].closure.globals[j].value.fn]

RECURSIVE Discover(_, _, _)
\* The helpers in first-discovered order: each when first reached, going into
\* a helper's own captures before the next capture
Discover(hp, todo, seen) ==
    IF Len(todo) = 0 THEN seen
    ELSE IF \E j \in 1..Len(seen) : seen[j] = todo[1]
    THEN Discover(hp, Tail(todo), seen)
    ELSE Discover(hp, Captures(hp, todo[1]) \o Tail(todo), Append(seen, todo[1]))

\* A function translated by itself: an instance that holds its tree and
\* source and nothing of its closure
Alone(hp, fn) ==
    [InitFields(NoneVal, FuncObj(fn)) EXCEPT
        !.source = [present |-> TRUE, nlines |-> hp[fn].nlines],
        !.root = hp[fn].tree]

\* Its forward signature, and its full body
SignatureOf(hp, fn) ==
    stringify_function_signature(Alone(hp, fn), ModuleGlobals, hp[fn].tree.body[1], TRUE).val
BodyOf(hp, fn) ==
    stringify_node(Alone(hp, fn), ModuleGlobals, hp[fn].tree, <<>>).val

\* Signatures, then bodies in the same order, then the root body
ThreeSections(hp, fn, helpers) ==
    Join(t_BLANK, [j \in 1..Len(helpers) |-> SignatureOf(hp, helpers[j])]
                  \o [j \in 1..Len(helpers) |-> BodyOf(hp, helpers[j])]
                  \o <<BodyOf(hp, fn)>>)

\* C2: for a root function and an acyclic graph of captured helpers, to_str
\* returns the forward signatures of every transitively captured helper in
\* first-discovered order, then the bodies of the same helpers in the same
\* order, then the root body, separated by blank lines.
C2_ThreeSections ==
    (Done /\ argument.kind = "function")
        => (ret.exc = "None"
            /\ ret.val = ThreeSections(heap, argument.fn,
                                       Discover(heap, Captures(heap, argument.fn), <<>>)))

\* C2 holds when no helper captures a helper
C2_DirectHelpers ==
    (Done /\ argument.kind = "function"
          /\ \A j \in 1..Len(Captures(heap, argument.fn)) :
                 Captures(heap, Captures(heap, argument.fn)[j]) = <<>>)
        => (ret.exc = "None"
            /\ ret.val = ThreeSections(heap, argument.fn, Captures(heap, argument.fn)))

-----------------------------------------------------------------------------
(* Batches: py2okl on a list of inputs.                                    *)

MaxBatch == 3

\* An object that is neither a tree nor a function, such as an int
IntObj == [kind |-> "int", fn |-> "", node |-> NoneVal, items |-> <<>>]

\* a;  a + b;  x = 1 (untyped);  a ^ b (no such operator);  7
BatchItems ==
    {AstObj(Name(1, t_a)),
     AstObj(BinOp(1, Name(1, t_a), "Add", Name(1, t_b))),
     AstObj(Module(<<Assign(1, <<Name(1, t_x)>>, Num(1, 1))>>)),
     AstObj(BinOp(1, Name(1, t_a), "BitXor", Name(1, t_b))),
     IntObj}

BatchInputs ==
    {[hp |-> NoHeap, o |-> ListObj(items)] : items \in SeqsOf(BatchItems, 0, MaxBatch)}

InitBatch == \E input \in BatchInputs : Start(input)

SpecBatch == InitBatch /\ [][Py2okl]_vars

\* The outcome of translating one input by itself
Single(hp, o) == Translate(hp, ModuleGlobals, NoInstance, o)

\* C3: py2okl on a batch of k inputs returns a list of k entries in input
\* order, entry i being the translation of input i when input i can be
\* translated; an input that fails does not keep the list from being returned.
C3_BatchEntries ==
    (Done /\ argument.kind = "list")
        => (/\ ret.exc = "None"
            /\ Len(ret.val) = Len(argument.items)
            /\ \A j \in 1..Len(argument.items) :
                   \A s \in {Single(heap, argument.items[j])} :
                       s.exc = "None" => ret.val[j] = s.val)

\* C3 holds for the batches whose inputs can all be translated
C3_AllTranslated ==
    (Done /\ argument.kind = "list"
          /\ \A j \in 1..Len(argument.items) : Single(heap, argument.items[j]).exc = "None")
        => (/\ ret.exc = "None"
            /\ Len(ret.val) = Len(argument.items)
            /\ \A j \in 1..Len(argument.items) :
                   ret.val[j] = Single(heap, argument.items[j]).val)

-----------------------------------------------------------------------------
(* Rejected constructs.                                                    *)

\* def add(<args>) -> <returns>: pass, at line ln
Def(ln, args, decorator_list, returns) ==
    FunctionDef(ln, t_add, args, <<Pass(ln)>>, decorator_list, returns)

IntArg(ln, name) == Arg(ln, name, Name(ln, t_int))

\* The statements at line ln that the translator rejects
Rejected(ln) ==
    {Expr(ln, BinOp(ln, Name(ln, t_a), "BitXor", Name(ln, t_b))),
     Expr(ln, BinOp(ln, Name(ln, t_a), "MatMult", Name(ln, t_b))),
     AugAssign(ln, Name(ln, t_a), "BitXor", Name(ln, t_b)),
     AugAssign(ln, Name(ln, t_a), "MatMult", Name(ln, t_b)),
     Expr(ln, Compare(ln, Name(ln, t_a), <<"LtE">>, <<Name(ln, t_b)>>)),
     Expr(ln, Compare(ln, Name(ln, t_a), <<"In">>, <<Name(ln, t_xs)>>)),
     Expr(ln, Compare(ln, Name(ln, t_a), <<"NotIn">>, <<Name(ln, t_xs)>>)),
     Def(ln, Arguments(<<>>, Arg(ln, t_xs, NoneVal), <<>>, <<>>, NoneVal, <<>>),
         <<>>, Name(ln, t_int)),
     Def(ln, Arguments(<<>>, NoneVal, <<>>, <<>>, Arg(ln, t_xs, NoneVal), <<>>),
         <<>>, Name(ln, t_int)),
     Def(ln, Arguments(<<IntArg(ln, t_a)>>, NoneVal, <<>>, <<>>, NoneVal, <<Num(ln, 1)>>),
         <<>>, Name(ln, t_int)),
     Def(ln, Arguments(<<Arg(ln, t_a, NoneVal)>>, NoneVal, <<>>, <<>>, NoneVal, <<>>),
         <<>>, Name(ln, t_int)),
     Def(ln, Arguments(<<IntArg(ln, t_a)>>, NoneVal, <<>>, <<>>, NoneVal, <<>>),
         <<>>, NoneVal),
     Def(ln, Arguments(<<IntArg(ln, t_a)>>, NoneVal, <<>>, <<>>, NoneVal, <<>>),
         <<Name(ln, t_staticmethod)>>, Name(ln, t_int)),
     Assign(ln, <<Name(ln, t_x), Name(ln, t_y)>>, Num(ln, 1)),
     AnnAssign(ln, Name(ln, t_x), Str(ln), NoneVal),
     For(ln, Tuple(ln, <<Name(ln, t_i), Name(ln, t_x)>>),
         Call(ln, Name(ln, t_range), <<Name(ln, t_n)>>), <<Pass(ln)>>),
     For(ln, Name(ln, t_i), Name(ln, t_xs), <<Pass(ln)>>),
     Expr(ln, Subscript(ln, Name(ln, t_xs), Slice)),
     Expr(ln, Str(ln)),
     Global(ln)}

\* A heap that holds the one function root
OnlyRoot(function) == [fn \in {"root"} |-> function]

\* def root() -> int: <body>, the body on the lines after the first
RootWith(builtins, nlines, body) ==
    OnlyRoot(Function(<<>>, builtins, nlines,
                      Module(<<FunctionDef(1, t_root, NoArguments, body, <<>>,
                                           Name(1, t_int))>>)))

\* A rejected statement by itself, in a module, in the branch of an if, in a
\* function body, and in a loop of a function body
RejectedInputs ==
    {[hp |-> NoHeap, o |-> AstObj(s)] : s \in Rejected(1)}
    \cup {[hp |-> NoHeap, o |-> AstObj(Module(<<s>>))] : s \in Rejected(1)}
    \cup {[hp |-> NoHeap, o |-> AstObj(Module(<<If(1, Name(1, t_a), <<s>>, <<>>)>>))] :
             s \in Rejected(2)}
    \cup {[hp |-> RootWith(<<>>, 2, <<s>>), o |-> FuncObj("root")] : s \in Rejected(2)}
    \cup {[hp |-> RootWith(<<t_range>>, 3,
                           <<For(2, Name(2, t_i),
                                 Call(2, Name(2, t_range), <<Name(2, t_n)>>), <<s>>)>>),
           o |-> FuncObj("root")] : s \in Rejected(3)}

InitRejected == \E input \in RejectedInputs : Start(input)

SpecRejected == InitRejected /\ [][Py2okl]_vars

\* C4: every construct the translator rejects during traversal ends the
\* translation with a TransformError that carries the diagnostic, and with no
\* other kind of failure, whatever node raise_error is handed.
C4_RejectedIsTransformError ==
    Done => (ret.exc = "TransformError" /\ ret.err.message # "")

\* C4 holds whenever the node handed to raise_error carries a line and column
C4_PositionedNode ==
    (Done /\ MangledSlot \in DOMAIN proc.module
          /\ "lineno" \in DOMAIN proc.module[MangledSlot])
        => (ret.exc = "TransformError" /\ ret.err.message # "")

\* Every rejected construct is rejected
C4_Rejected == Done => ret.exc # "None"

-----------------------------------------------------------------------------
(* Declarations and assignments in nested blocks.                          *)

\* The statements of the programs, before they are given a line
Declare(id) == [do |-> "declare", id |-> id]
AssignTo(id) == [do |-> "assign", id |-> id]
AssignItem == [do |-> "assign item", id |-> t_xs]
Skip == [do |-> "pass", id |-> <<>>]

\* pass;  id: int = p.id;  id = p.id;  xs[0] = 1
Statement(s, ln) ==
    CASE s.do = "declare" ->
             AnnAssign(ln, Name(ln, s.id), Name(ln, t_int),
                       Attribute(ln, Name(ln, t_p), s.id))
      [] s.do = "assign" ->
             Assign(ln, <<Name(ln, s.id)>>, Attribute(ln, Name(ln, t_p), s.id))
      [] s.do = "assign item" ->
             Assign(ln, <<Subscript(ln, Name(ln, s.id), Index(Num(ln, 0)))>>, Num(ln, 1))
      [] OTHER -> Pass(ln)

BlockKinds == {"if", "else", "elif", "for", "while"}

\* The compound statement of a kind at line ln with the two statements in
\* its block
Block(kind, ln, s2, s3) ==
    CASE kind = "if" ->
             If(ln, Name(ln, t_a), <<Statement(s2, ln + 1), Statement(s3, ln + 2)>>, <<>>)
      [] kind = "else" ->
             If(ln, Name(ln, t_a), <<Pass(ln + 1)>>,
                <<Statement(s2, ln + 3), Statement(s3, ln + 4)>>)
      [] kind = "elif" ->
             If(ln, Name(ln, t_a), <<Pass(ln + 1)>>,
                <<If(ln + 2, Name(ln + 2, t_b),
                     <<Statement(s2, ln + 3), Statement(s3, ln + 4)>>, <<>>)>>)
      [] kind = "for" ->
             For(ln, Name(ln, t_i), Call(ln, Name(ln, t_range), <<Name(ln, t_n)>>),
                 <<Statement(s2, ln + 1), Statement(s3, ln + 2)>>)
      [] kind = "while" ->
             While(ln, Name(ln, t_a), <<Statement(s2, ln + 1), Statement(s3, ln + 2)>>, <<>>)

\* s1; a compound statement around s2; s3; then s4, from line ln on
Program(kind, ln, s1, s2, s3, s4) ==
    <<Statement(s1, ln), Block(kind, ln + 1, s2, s3), Statement(s4, ln + 6)>>

First == {Skip, Declare(t_x), Declare(t_y)}
Inner == {Skip, Declare(t_x), Declare(t_y), AssignTo(t_x), AssignTo(t_y), AssignTo(t_i),
          AssignItem}
Final == {Skip, AssignTo(t_x), AssignTo(t_y), AssignItem}

\* def root(p: int, x: int) -> int: <program>
ProgramFunction(globals, kind, body) ==
    Function(globals, IF kind = "for" THEN <<t_range>> ELSE <<>>, 8,
             Module(<<FunctionDef(1, t_root,
                                  Arguments(<<IntArg(1, t_p), IntArg(1, t_x)>>,
                                            NoneVal, <<>>, <<>>, NoneVal, <<>>),
                                  body, <<>>, Name(1, t_int))>>))

\* The module globals that inspect.getclosurevars reports for the function
\* when the module binds x = 1 and y = 2: it reports every name of co_names
\* that the module binds, the attribute names of p.x and p.y included
AttributeGlobals(statements) ==
    SelectSeq(<<[key |-> t_x, value |-> Value("int")], [key |-> t_y, value |-> Value("int")]>>,
              LAMBDA item : \E s \in statements :
                                s.do \in {"declare", "assign"} /\ s.id = item.key)

\* The program as a module tree, as the body of a function of a module with
\* no globals, and as the body of a function of a module with x = 1 and y = 2
ScopeInputs ==
    UNION {{[hp |-> NoHeap, o |-> AstObj(Module(Program(kind, 1, s1, s2, s3, s4)))],
            [hp |-> OnlyRoot(ProgramFunction(<<>>, kind, Program(kind, 2, s1, s2, s3, s4))),
             o |-> FuncObj("root")],
            [hp |-> OnlyRoot(ProgramFunction(AttributeGlobals({s1, s2, s3, s4}), kind,
                                             Program(kind, 2, s1, s2, s3, s4))),
             o |-> FuncObj("root")]} :
           kind \in BlockKinds, s1 \in First, s2 \in Inner, s3 \in Inner, s4 \in Final}

InitScope == \E input \in ScopeInputs : Start(input)

SpecScope == InitScope /\ [][Py2okl]_vars

RECURSIVE Declared(_, _)
\* Every plain assignment to a bare name in stmts has its name in declared
\* or declared by an annotated assignment before it, in its own block or in
\* a block around it
Declared(stmts, declared) ==
    IF Len(stmts) = 0 THEN TRUE
    ELSE CASE stmts[1].type = "AnnAssign" ->
                  Declared(Tail(stmts), declared \cup {stmts[1].target.id})
           [] stmts[1].type = "Assign" ->
                  /\ stmts[1].targets[1].type = "Name" => stmts[1].targets[1].id \in declared
                  /\ Declared(Tail(stmts), declared)
           [] stmts[1].type = "If" ->
                  /\ Declared(stmts[1].body, declared)
                  /\ Declared(stmts[1].orelse, declared)
                  /\ Declared(Tail(stmts), declared)
           [] stmts[1].type \in {"For", "While"} ->
                  /\ Declared(stmts[1].body, declared)
                  /\ Declared(Tail(stmts), declared)
           [] OTHER -> Declared(Tail(stmts), declared)

\* The statements of the program that was translated
Translated ==
    IF argument.kind = "ast" THEN argument.node.body
    ELSE heap[argument.fn].tree.body[1].body

Untyped == ret.exc = "TransformError" /\ ret.err.message = "Cannot handle untyped variables"

\* C5: a plain assignment to a bare name is accepted if and only if the name
\* was introduced by an annotated assignment earlier in the traversal in a
\* block that is still open; otherwise the translation fails with
\* TransformError 'Cannot handle untyped variables'.  Parameters, loop indices
\* and names of exited blocks count as undeclared; subscript targets are not
\* checked.
C5_AssignedIffDeclared ==
    Done => IF Declared(Translated, {}) THEN ret.exc = "None" ELSE Untyped

\* C5 holds when no name of the function is also a primitive global of its
\* closure
C5_NoCapturedName ==
    (Done /\ (argument.kind = "function" => heap[argument.fn].closure.globals = <<>>))
        => IF Declared(Translated, {}) THEN ret.exc = "None" ELSE Untyped

-----------------------------------------------------------------------------
(* Names in expression position.                                           *)

\* x: a local, declared or not;  N: a module global, bound to an int or not
\* bound;  u: bound nowhere;  p: the parameter
UsedNames == {t_x, t_N, t_u, t_p}

\* n;  n + m;  f(n) for the builtins len and range and the unbound foo
UsedExpressions(ln) ==
    {Name(ln, n) : n \in UsedNames}
    \cup {BinOp(ln, Name(ln, n), "Add", Name(ln, m)) : n \in UsedNames, m \in UsedNames}
    \cup {Call(ln, Name(ln, f), <<Name(ln, n)>>) : f \in {t_len, t_range, t_foo}, n \in UsedNames}

RECURSIVE NamesIn(_)
\* The names an expression uses
NamesIn(node) ==
    CASE node.type = "Name" -> {node.id}
      [] node.type = "BinOp" -> NamesIn(node.left) \cup NamesIn(node.right)
      [] node.type = "Call" ->
             NamesIn(node.func) \cup UNION {NamesIn(node.args[j]) : j \in 1..Len(node.args)}
      [] OTHER -> {}

\* def root(p: int) -> int:
\*     x: int = 1          (when declared)
\*     return <value>
\* in a module that binds N = 10 (when bound)
NamesFunction(declared, bound, value) ==
    Function(IF bound /\ t_N \in NamesIn(value)
             THEN <<[key |-> t_N, value |-> Value("int")]>> ELSE <<>>,
             SelectSeq(<<t_len, t_range>>, LAMBDA f : f \in NamesIn(value)),
             3,
             Module(<<FunctionDef(1, t_root,
                                  Arguments(<<IntArg(1, t_p)>>, NoneVal, <<>>, <<>>,
                                            NoneVal, <<>>),
                                  (IF declared
                                   THEN <<AnnAssign(2, Name(2, t_x), Name(2, t_int), Num(2, 1))>>
                                   ELSE <<Pass(2)>>)
                                  \o <<ReturnStmt(3, value)>>,
                                  <<>>, Name(1, t_int))>>))

NamesInputs ==
    {[hp |-> OnlyRoot(NamesFunction(declared, bound, value)), o |-> FuncObj("root")] :
        declared \in BOOLEAN, bound \in BOOLEAN, value \in UsedExpressions(3)}

InitNames == \E input \in NamesInputs : Start(input)

SpecNames == InitNames /\ [][Py2okl]_vars

\* The names the function's statements declare, and its parameters
LocalsOf(function) ==
    {function.tree.body[1].body[j].target.id :
        j \in {k \in 1..Len(function.tree.body[1].body) :
                   function.tree.body[1].body[k].type = "AnnAssign"}}
ParametersOf(function) ==
    {function.tree.body[1].args.args[j].arg : j \in 1..Len(function.tree.body[1].args.args)}

\* A name resolves: a declared local (or a parameter), a closure global of a
\* primitive type, or one of the allowed builtins
Resolves(function, name) ==
    \/ name \in LocalsOf(function) \cup ParametersOf(function)
    \/ \E j \in 1..Len(function.closure.globals) :
           /\ function.closure.globals[j].key = name
           /\ function.closure.globals[j].value.vtype \in DOMAIN VALID_GLOBAL_VALUE_TYPES
    \/ name \in VALID_BUILTINS

\* C6: a translation succeeds only if every name used in expression position
\* resolves to a declared local, a closure global of a known primitive type
\* or an allowed builtin; a function that uses a name bound nowhere is
\* rejected.
C6_NamesResolve ==
    (Done /\ ret.exc = "None")
        => \A name \in NamesIn(heap[argument.fn].tree.body[1].body[2].value) :
               Resolves(heap[argument.fn], name)

-----------------------------------------------------------------------------
(* Builtins and captured helpers.                                          *)

\* What a helper function is like: translatable, referencing the builtin abs,
\* holding an untyped assignment, holding an operator outside the tables, or
\* lacking its return annotation
HelperKinds == {"fine", "builtin", "untyped", "operator", "signature"}

\* def <name>() -> int: <one statement>
HelperFunction(fn, kind) ==
    Function(<<>>, IF kind = "builtin" THEN <<t_abs>> ELSE <<>>, 2,
             Module(<<FunctionDef(1, FnName(fn), NoArguments,
                                  <<CASE kind = "builtin" ->
                                             ReturnStmt(2, Call(2, Name(2, t_abs), <<Name(2, t_a)>>))
                                      [] kind = "untyped" ->
                                             Assign(2, <<Name(2, t_x)>>, Num(2, 1))
                                      [] kind = "operator" ->
                                             ReturnStmt(2, BinOp(2, Name(2, t_a), "BitXor",
                                                                 Name(2, t_b)))
                                      [] OTHER -> ReturnStmt(2, Num(2, 0))>>,
                                  <<>>,
                                  IF kind = "signature" THEN NoneVal ELSE Name(1, t_int))>>))

\* The globals the root function can capture: the helpers B and C, the int N
\* and the module np
Capturable ==
    {[key |-> t_B, value |-> FuncValue("B")],
     [key |-> t_C, value |-> FuncValue("C")],
     [key |-> t_N, value |-> Value("int")],
     [key |-> t_np, value |-> Value("module")]}

MaxCaptured == 3

CapturedOrders ==
    {s \in SeqsOf(Capturable, 0, MaxCaptured) : \A j, k \in 1..Len(s) : j # k => s[j] # s[k]}

\* def root() -> int: return 0, with the globals and builtins of its closure
BuiltinHeap(globals, builtins, kindOfB, kindOfC) ==
    [fn \in {"root", "B", "C"} |->
        CASE fn = "root" ->
                 Function(globals, builtins, 2,
                          Module(<<FunctionDef(1, t_root, NoArguments,
                                               <<ReturnStmt(2, Num(2, 0))>>, <<>>,
                                               Name(1, t_int))>>))
          [] fn = "B" -> HelperFunction(fn, kindOfB)
          [] fn = "C" -> HelperFunction(fn, kindOfC)]

BuiltinInputs ==
    {[hp |-> BuiltinHeap(globals, builtins, kindOfB, kindOfC), o |-> FuncObj("root")] :
        globals \in CapturedOrders,
        builtins \in {<<>>, <<t_len>>, <<t_abs>>, <<t_len, t_abs>>, <<t_abs, t_range>>},
        kindOfB \in HelperKinds, kindOfC \in {"fine", "untyped"}}

InitBuiltin == \E input \in BuiltinInputs : Start(input)

SpecBuiltin == InitBuiltin /\ [][Py2okl]_vars

\* The function references a builtin other than range and len
BadBuiltin(function) ==
    \E j \in 1..Len(function.closure.builtins) :
        function.closure.builtins[j] \notin VALID_BUILTINS

\* A step on the tree of fn was taken: its signature or its tree was rendered
Traversed(fn) ==
    \E j \in 1..Len(proc.trace) :
        proc.trace[j].ev \in {"signature", "traverse", "raise_error"} /\ proc.trace[j].fn = fn

\* C7: constructing the translator for a function that references a builtin
\* other than range and len fails with FunctionClosureError before any tree
\* has been traversed, also when the function captures helper functions.
C7_BuiltinBeforeAnyTraversal ==
    (Done /\ BadBuiltin(heap[argument.fn]))
        => (ret.exc = "FunctionClosureError" /\ \A fn \in DOMAIN heap : ~Traversed(fn))

\* Every helper function the function captures can be translated
HelpersTranslate(hp, function) ==
    \A j \in 1..Len(function.closure.globals) :
        function.closure.globals[j].value.vtype = "function"
            => Single(hp, FuncObj(function.closure.globals[j].value.fn)).exc = "None"

\* C7 as amended: it fails before its own tree is traversed, and with
\* FunctionClosureError when every helper it captures can be translated;
\* the trees of the helpers are traversed first.
C7_BuiltinBeforeOwnTraversal ==
    (Done /\ BadBuiltin(heap[argument.fn]))
        => (/\ ret.exc # "None"
            /\ ~Traversed(argument.fn)
            /\ HelpersTranslate(heap, heap[argument.fn]) => ret.exc = "FunctionClosureError")

\* A function with a bad builtin and a translatable helper was rejected after
\* the helper's tree was traversed
C7_Witness ==
    /\ Done
    /\ BadBuiltin(heap[argument.fn])
    /\ ret.exc = "FunctionClosureError"
    /\ Traversed("B")
    /\ ~Traversed(argument.fn)

-----------------------------------------------------------------------------
(* Signatures.                                                             *)

MaxParams == 3

\* The parameters: name and annotation
Params ==
    {[arg |-> t_a, annotation |-> t_int], [arg |-> t_b, annotation |-> t_int],
     [arg |-> t_c, annotation |-> t_float], [arg |-> t_x, annotation |-> t_int]}

ParamOrders ==
    {s \in SeqsOf(Params, 1, MaxParams) : \A j, k \in 1..Len(s) : j # k => s[j] # s[k]}

\* The arguments node of def add(p1, ..., pk, *, pk+1, ..., pN): Python gives
\* every keyword-only parameter an entry in kw_defaults, None when it has no
\* default
SplitArguments(params, positional) ==
    Arguments([j \in 1..positional |-> Arg(1, params[j].arg, Name(1, params[j].annotation))],
              NoneVal,
              [j \in 1..(Len(params) - positional) |->
                  Arg(1, params[positional + j].arg,
                      Name(1, params[positional + j].annotation))],
              [j \in 1..(Len(params) - positional) |-> NoneVal],
              NoneVal, <<>>)

\* [@okl.kernel] def add(<params>) -> int | None: pass
SignatureInputs ==
    UNION {{[hp |-> NoHeap,
             o |-> AstObj(FunctionDef(1, t_add, SplitArguments(params, positional),
                                      <<Pass(2)>>, decorator_list, returns))] :
               positional \in 0..Len(params),
               decorator_list \in {<<>>, <<Attribute(1, Name(1, t_okl), t_kernel)>>},
               returns \in {Name(1, t_int), NameConstant(1, "None")}} :
           params \in ParamOrders}

InitSignature == \E input \in SignatureInputs : Start(input)

SpecSignature == InitSignature /\ [][Py2okl]_vars

\* The text of a signature up to and including its opening parenthesis
Opening(node) ==
    (IF Len(node.decorator_list) > 0 THEN t_at_kernel \o t_SP ELSE <<>>)
    \o (IF node.returns.type = "Name" THEN node.returns.id ELSE t_void)
    \o t_SP \o node.name \o t_LPAREN

\* The declarations of the parameters in their original order
Declarations(node) ==
    [j \in 1..Len(node.args.args) |->
        node.args.args[j].annotation.id \o t_SP \o node.args.args[j].arg]
    \o [j \in 1..Len(node.args.kwonlyargs) |->
           node.args.kwonlyargs[j].annotation.id \o t_SP \o node.args.kwonlyargs[j].arg]

\* One declaration per parameter, separated by ',' and a newline, every
\* continuation line indented by the length of the opening
Layout(node) ==
    Opening(node)
    \o Join(t_COMMA_NL \o Spaces(Len(Opening(node))), Declarations(node))
    \o t_RPAREN

\* C8: for a function with N >= 1 annotated parameters, positional or
\* keyword-only, none defaulted or variadic, and a return annotation, the
\* signature lists the N declarations in original order, separated by ','
\* and a newline, continuation lines indented by the length of the text up to
\* and including the opening parenthesis.
C8_SignatureLayout ==
    Done => (ret.exc = "None" /\ ret.val = Layout(argument.node) \o t_EMPTY_BODY)

\* C8 holds for the functions whose parameters are all positional
C8_PositionalOnly ==
    (Done /\ Len(argument.node.args.kwonlyargs) = 0)
        => (ret.exc = "None" /\ ret.val = Layout(argument.node) \o t_EMPTY_BODY)

-----------------------------------------------------------------------------
(* Sessions: several calls of py2okl in one process.                       *)

MaxCalls == 3

\* root captures the helper C and uses len; B uses the builtin abs
SessionHeap ==
    BuiltinHeap(<<[key |-> t_C, value |-> FuncValue("C")]>>, <<t_len>>, "builtin", "fine")

\* x: int = 1; x = 2  /  x = 2  /  x: int = 1; a ^ b  /  x: int = 1; x, y = 1
\* / root / B / 7 / [a, 7]
Catalogue ==
    {AstObj(Module(<<AnnAssign(1, Name(1, t_x), Name(1, t_int), Num(1, 1)),
                     Assign(2, <<Name(2, t_x)>>, Num(2, 2))>>)),
     AstObj(Module(<<Assign(1, <<Name(1, t_x)>>, Num(1, 2))>>)),
     AstObj(Module(<<AnnAssign(1, Name(1, t_x), Name(1, t_int), Num(1, 1)),
                     Expr(2, BinOp(2, Name(2, t_a), "BitXor", Name(2, t_b)))>>)),
     AstObj(Module(<<AnnAssign(1, Name(1, t_x), Name(1, t_int), Num(1, 1)),
                     Assign(2, <<Name(2, t_x), Name(2, t_y)>>, Num(2, 1))>>)),
     FuncObj("root"),
     FuncObj("B"),
     IntObj,
     ListObj(<<AstObj(Name(1, t_a)), IntObj>>)}

InitSession == Start([hp |-> SessionHeap, o |-> NoObj])

\* py2okl on any input of the catalogue
Session == calls < MaxCalls /\ \E o \in Catalogue : Invoke(o)

SpecSession == InitSession /\ [][Session]_vars

\* C9: translating the same input twice gives the same outcome both times,
\* the same text or the same failure, whatever translations, successful or
\* failed, happen in between.
C9_SameInputSameOutcome ==
    \A j, k \in 1..Len(history) :
        history[j].input = history[k].input => history[j].outcome = history[k].outcome

\* An input was translated, another input failed and left its node in the
\* process-wide slot and its scopes on the instance, and the first input was
\* translated again
C9_Witness ==
    /\ Len(history) = 3
    /\ history[1].input = history[3].input
    /\ history[1].outcome.exc = "TransformError"
    /\ history[2].input # history[1].input
    /\ history[2].outcome.exc = "AttributeError"
    /\ MangledSlot \in DOMAIN proc.module
    /\ history[3].outcome = history[1].outcome

-----------------------------------------------------------------------------
(* Counted loops.                                                          *)

\* The argument lists of a range call: (n), (5), (0, n), (a, b, 2), (n, 0, -1), ()
RangeArgs ==
    {<<Name(1, t_n)>>,
     <<Num(1, 5)>>,
     <<Num(1, 0), Name(1, t_n)>>,
     <<Name(1, t_a), Name(1, t_b), Num(1, 2)>>,
     <<Name(1, t_n), Num(1, 0), UnaryOp(1, "USub", Num(1, 1))>>,
     <<>>}

\* range(...), okl.range(...), ranges, xs, foo(n), 5, foo(a ^ b), xs[:],
\* range(a ^ b), a <= b
Iterables ==
    {Call(1, Name(1, t_range), args) : args \in RangeArgs}
    \cup {Call(1, Attribute(1, Name(1, t_okl), t_range), args) : args \in RangeArgs}
    \cup {Name(1, t_ranges),
          Name(1, t_xs),
          Call(1, Name(1, t_foo), <<Name(1, t_n)>>),
          Num(1, 5),
          Call(1, Name(1, t_foo), <<BinOp(1, Name(1, t_a), "BitXor", Name(1, t_b))>>),
          Subscript(1, Name(1, t_xs), Slice),
          Call(1, Name(1, t_range), <<BinOp(1, Name(1, t_a), "BitXor", Name(1, t_b))>>),
          Compare(1, Name(1, t_a), <<"LtE">>, <<Name(1, t_b)>>)}

LoopTargets == {t_i, t_n, t_x}

LoopBodies == {<<Pass(2)>>, <<AnnAssign(2, Name(2, t_y), Name(2, t_int), Num(2, 1))>>}

\* for <target> in <iter>: <body>
Loops ==
    {For(1, Name(1, target), iter, body) :
        target \in LoopTargets, iter \in Iterables, body \in LoopBodies}

\* A loop by itself and as the only statement of a module
LoopInputs ==
    {[hp |-> NoHeap, o |-> AstObj(loop)] : loop \in Loops}
    \cup {[hp |-> NoHeap, o |-> AstObj(Module(<<loop>>))] : loop \in Loops}

InitLoop == \E input \in LoopInputs : Start(input)

SpecLoop == InitLoop /\ [][Py2okl]_vars

\* The loop of the input
LoopOf(o) == IF o.node.type = "For" THEN o.node ELSE o.node.body[1]

\* What rendering the iterable by itself gives
RenderedIter(o) == Single(NoHeap, AstObj(LoopOf(o).iter))

\* The iterable is rendered, to text that starts with range or okl.range
Counted(o) ==
    /\ RenderedIter(o).exc = "None"
    /\ \/ StartsWith(RenderedIter(o).val, t_range)
       \/ StartsWith(RenderedIter(o).val, t_okl_range)

\* for (int i = 0; i < 10; ++i) {
Header(index) ==
    t_for_open \o index \o t_EQ_SP \o <<"0">> \o t_SEMI_SP
    \o index \o t_LT_SP \o <<"1", "0">> \o t_SEMI_SP
    \o t_INC \o index \o t_RPAREN \o <<" ", "{">>

\* The translation is the loop with the fixed header
FixedHeader(o) ==
    ret.exc = "None" /\ StartsWith(ret.val, Header(LoopOf(o).target.id))

\* C10: a counted loop whose target is a single name i and whose iterable's
\* rendered text starts with range or okl.range gets the header
\* for (int i = 0; i < 10; ++i) whatever the arguments are; any other iterable
\* fails with TransformError.
C10_CountedLoopHeader ==
    Done => IF Counted(argument) THEN FixedHeader(argument)
            ELSE ret.exc = "TransformError"

\* C10 holds for the loops whose iterable can be rendered
C10_RenderedIterable ==
    (Done /\ RenderedIter(argument).exc = "None") =>
        IF Counted(argument) THEN FixedHeader(argument)
        ELSE ret.exc = "TransformError"

\* A loop whose iterable cannot be rendered fails as the iterable does
C10_UnrenderedIterable ==
    (Done /\ RenderedIter(argument).exc # "None") =>
        ret.exc = RenderedIter(argument).exc

-----------------------------------------------------------------------------
(* Helpers reachable along several paths.                                  *)

\* How often a step of the given kind was taken for function fn in the call
Times(ev, fn) ==
    Cardinality({k \in 1..Len(proc.trace) : proc.trace[k] = [ev |-> ev, fn |-> fn]})

\* How often piece occurs in text
Occurrences(text, piece) ==
    Cardinality({k \in 1..(Len(text) - Len(piece) + 1) :
                    SubSeq(text, k, k + Len(piece) - 1) = piece})

\* The helpers reachable from fn
Reachable(hp, fn) ==
    {Discover(hp, Captures(hp, fn), <<>>)[j] :
        j \in 1..Len(Discover(hp, Captures(hp, fn), <<>>))}

\* The functions among fn and its helpers that capture helper h
Capturers(hp, fn, h) ==
    {f \in Reachable(hp, fn) \cup {fn} :
        \E j \in 1..Len(Captures(hp, f)) : Captures(hp, f)[j] = h}

\* Helper h was constructed and traversed once, and its signature and its
\* body are in the text once
Once(hp, h) ==
    /\ Times("inspect", h) = 1
    /\ Times("traverse", h) = 1
    /\ Occurrences(ret.val, SignatureOf(hp, h)) = 1
    /\ Occurrences(ret.val, BodyOf(hp, h)) = 1

\* C11: within one top-level translation every helper reachable in the
\* closure graph is translated exactly once and its signature and body each
\* appear exactly once in the text, also when it is reachable along several
\* paths.
C11_EachHelperOnce ==
    (Done /\ argument.kind = "function")
        => (ret.exc = "None"
            /\ \A h \in Reachable(heap, argument.fn) : Once(heap, h))

\* C11 holds when every helper is captured by one function only
C11_SinglePath ==
    (Done /\ argument.kind = "function"
          /\ \A h \in Reachable(heap, argument.fn) :
                 Cardinality(Capturers(heap, argument.fn, h)) = 1)
        => (ret.exc = "None"
            /\ \A h \in Reachable(heap, argument.fn) : Once(heap, h))

\* A helper is translated once for every path that leads to it
C11_Diamond ==
    (Done /\ Captures(heap, "root") = <<"B", "C">>
          /\ Captures(heap, "B") = <<"D">> /\ Captures(heap, "C") = <<"D">>)
        => (Times("traverse", "D") = 2
            /\ Occurrences(ret.val, SignatureOf(heap, "D")) = 2
            /\ Occurrences(ret.val, BodyOf(heap, "D")) = 2)

-----------------------------------------------------------------------------
(* Closure graphs with cycles.                                             *)

\* A heap where every function may capture any function, itself included
CycleHeap(ofRoot, ofB, ofC, ofD) ==
    [fn \in Functions |->
        CASE fn = "root" -> Caller(fn, ofRoot)
          [] fn = "B" -> Caller(fn, ofB)
          [] fn = "C" -> Caller(fn, ofC)
          [] fn = "D" -> Caller(fn, ofD)]

\* No capture or one
AtMostOne == {s \in Orders(Functions) : Len(s) <= 1}

\* None, one or two captures
AtMostTwo == {s \in Orders(Functions) : Len(s) <= 2}

CycleInputs ==
    {[hp |-> CycleHeap(ofRoot, ofB, ofC, ofD), o |-> FuncObj("root")] :
        ofRoot \in AtMostTwo, ofB \in AtMostOne, ofC \in AtMostOne, ofD \in AtMostOne}

InitCycle == \E input \in CycleInputs : Start(input)

SpecCycle == InitCycle /\ [][Py2okl]_vars

\* The functions fn captures
CaptureSet(hp, fn) == {Captures(hp, fn)[j] : j \in 1..Len(Captures(hp, fn))}

RECURSIVE CapturedFrom(_, _)
\* The functions captured by the functions of S, by those they capture, ...
CapturedFrom(hp, S) ==
    IF UNION {CaptureSet(hp, f) : f \in S} \subseteq S THEN S
    ELSE CapturedFrom(hp, S \cup UNION {CaptureSet(hp, f) : f \in S})

\* fn reaches a function that captures itself, directly or through others
Cyclic(hp, fn) ==
    \E f \in CapturedFrom(hp, {fn}) : f \in CapturedFrom(hp, CaptureSet(hp, f))

\* C12: the translation of a function with a finite tree and a finite closure
\* graph terminates returning text or raising ClosureError or TransformError,
\* also when a captured function references itself or two helpers reference
\* each other: a call that has ended has ended in one of these three ways.
C12_Terminates ==
    Done => ret.exc \in {"None", "FunctionClosureError", "TransformError"}

\* The call ends in RecursionError exactly when the closure graph has a cycle,
\* and in text otherwise
C12_CycleOverflows ==
    Done => IF Cyclic(heap, argument.fn) THEN ret.exc = "RecursionError"
            ELSE ret.exc = "None"

\* A function that captures itself overflows the stack of constructor calls
C12_SelfReference ==
    (Done /\ Captures(heap, "root") = <<"root">>) => ret.exc = "RecursionError"

-----------------------------------------------------------------------------
(* The accessor of the last failing node.                                  *)

\* What argument holds after a call of get_last_error_node
Accessor == [kind |-> "get_last_error_node", fn |-> "", node |-> NoneVal, items |-> <<>>]

\* Oklifier.get_last_error_node()
GetLastErrorNode ==
    \E r \in {get_last_error_node(proc)} :
    /\ argument' = Accessor
    /\ ret' = [exc |-> r.exc, val |-> r.val, err |-> r.err]
    /\ UNCHANGED <<heap, proc, last, calls, history>>

\* Translations and reads of the accessor, in any order
SessionOrAccessor == Session \/ GetLastErrorNode

SpecAccessor == InitSession /\ [][SessionOrAccessor]_vars

\* The calls of raise_error among the steps of one translation
Raised(steps) == SelectSeq(steps, LAMBDA e : e.ev = "raise_error")

RECURSIVE LastHanded(_)
\* The node handed to the most recent call of raise_error, None if there was
\* no such call
LastHanded(h) ==
    IF Len(h) = 0 THEN NoneVal
    ELSE IF Len(Raised(h[Len(h)].trace)) > 0
    THEN Raised(h[Len(h)].trace)[Len(Raised(h[Len(h)].trace))].node
    ELSE LastHanded(SubSeq(h, 1, Len(h) - 1))

\* C13: after any sequence of translation attempts get_last_error_node returns
\* the node handed to the most recent raise_error call, and None when no
\* translation has failed yet.
C13_LastErrorNode ==
    argument = Accessor => (ret.exc = "None" /\ ret.val = LastHanded(history))

\* C13 holds once raise_error has been called
C13_AfterFailure ==
    (argument = Accessor /\ LastHanded(history) # NoneVal)
        => (ret.exc = "None" /\ ret.val = LastHanded(history))

\* Before that the accessor raises NameError
C13_BeforeFailure ==
    (argument = Accessor /\ LastHanded(history) = NoneVal) => ret.exc = "NameError"

\* One write per translation that raise_error ended, none in the others
C13_OneWrite ==
    \A j \in 1..Len(history) :
        Len(Raised(history[j].trace)) =
            IF history[j].outcome.exc \in {"TransformError", "AttributeError"} THEN 1 ELSE 0

\* A translation that succeeds or fails with ClosureError leaves the slot as
\* it was
C13_SlotKept ==
    [][(calls' = calls + 1 /\ ret'.exc \in {"None", "FunctionClosureError"})
           => proc'.module = proc.module]_vars

-----------------------------------------------------------------------------
(* Augmented assignments.                                                  *)

\* x, a, xs[i]
AugTargets == {Name(1, t_x), Name(1, t_a), Subscript(1, Name(1, t_xs), Index(Name(1, t_i)))}

\* v, 2, a + b, foo(n)
AugValues ==
    {Name(1, t_v),
     Num(1, 2),
     BinOp(1, Name(1, t_a), "Add", Name(1, t_b)),
     Call(1, Name(1, t_foo), <<Name(1, t_n)>>)}

\* t op= v for every operator of the augmented-assignment table
AugAssigns ==
    {AugAssign(1, target, op, value) :
        target \in AugTargets, op \in DOMAIN AUG_OP_FORMATS, value \in AugValues}

\* An augmented assignment by itself and as the only statement of a module
AugInputs ==
    {[hp |-> NoHeap, o |-> AstObj(s)] : s \in AugAssigns}
    \cup {[hp |-> NoHeap, o |-> AstObj(Module(<<s>>))] : s \in AugAssigns}

InitAug == \E input \in AugInputs : Start(input)

SpecAug == InitAug /\ [][Py2okl]_vars

\* The augmented assignment of the input
AugOf(o) == IF o.node.type = "AugAssign" THEN o.node ELSE o.node.body[1]

\* The in-place form of an entry of the binary table: '{left} op= {right}'
\* for an infix entry '{left} op {right}', '{left} = f(...)' for an entry
\* that is a call
InPlace(op) ==
    IF BIN_OP_FORMATS[op][1] = Fld("left")
    THEN <<Fld("left"),
           Lit(SubSeq(BIN_OP_FORMATS[op][2].s, 1, Len(BIN_OP_FORMATS[op][2].s) - 1)
               \o <<"=", " ">>),
           Fld("right")>>
    ELSE <<Fld("left"), Lit(t_EQ_SP)>> \o BIN_OP_FORMATS[op]

\* The text the in-place form gives for the assignment
InPlaceText(node) ==
    Format(InPlace(node.op.type),
           [left |-> Single(NoHeap, AstObj(node.target)).val,
            right |-> Single(NoHeap, AstObj(node.value)).val])

\* The statement is emitted as text
EmittedAs(o, text) ==
    /\ ret.exc = "None"
    /\ IF o.node.type = "AugAssign" THEN ret.val = text ELSE StartsWith(ret.val, text)

\* C14: for every operator of the augmented-assignment table the text emitted
\* for t op= v is the in-place form of the same operator's entry in the binary
\* table: t op= v for the arithmetic, shift and bitwise operators, t = pow(t, v)
\* for exponentiation and t = floor(t / v) for floor division.
C14_InPlaceForm ==
    Done => EmittedAs(argument, InPlaceText(AugOf(argument)))

\* C14 holds for the operators other than left shift and floor division
C14_OtherOperators ==
    (Done /\ AugOf(argument).op.type \notin {"LShift", "FloorDiv"})
        => EmittedAs(argument, InPlaceText(AugOf(argument)))

\* Left shift is emitted as the binary expression, floor division with /=
\* inside the call
C14_ShiftAndFloor ==
    (Done /\ AugOf(argument).op.type \in {"LShift", "FloorDiv"})
        => EmittedAs(argument,
                     Format(IF AugOf(argument).op.type = "LShift"
                            THEN <<Fld("left"), Lit(<<" ", "<", "<", " ">>), Fld("right")>>
                            ELSE <<Fld("left"), Lit(<<" ", "=", " ", "f", "l", "o", "o", "r", "(">>),
                                   Fld("left"), Lit(<<" ", "/", "=", " ">>), Fld("right"),
                                   Lit(<<")">>)>>,
                            [left |-> Single(NoHeap, AstObj(AugOf(argument).target)).val,
                             right |-> Single(NoHeap, AstObj(AugOf(argument).value)).val]))
=============================================================================
